---- MODULE Spec2Model ----
(***************************************************************************)
(* Voces Anonimas: crisis classifier, urgency escalator and the message    *)
(* record lifecycle (submission, counselor reply, student reply, status    *)
(* update) over the record collection kept in localStorage.                *)
(* Beside them: the stored item as JSON text, and the gamification and     *)
(* appointment modules of the site.                                        *)
(*                                                                         *)
(* Texts are TLA+ strings; Len, SubSeq and \o act on them character by     *)
(* character, which is how String.prototype.includes / toLowerCase /       *)
(* charAt are modelled.                                                    *)
(***************************************************************************)
EXTENDS Integers, Sequences, FiniteSets, TLC

\* ------------------------------------------------------------------------
\* Bounds of the model
\* ------------------------------------------------------------------------
MaxWords == 2       \* fragments joined into one analysed text
MaxReplies == 2     \* replies in the stored collection
MaxClock == 1       \* last clock reading (milliseconds since the start)
MaxDraws == 2       \* random codes drawn by one generateTrackingCode call
MaxCollisions == 2  \* collisions counted within one generateTrackingCode call
MaxCalls == 2       \* handler calls made from one page while another is open
MaxPoints == 30     \* points of GamificationSystem.progress
MaxDay == 2         \* last day on which the page is loaded
MaxAppointments == 2 \* appointments requested
MaxHour == 25       \* last reading of the wall clock, in hours

VARIABLES
    localStorage,   \* the item 'vocesAnonimas_messages': [present, data]
    AppState,       \* AppState.messages
    replyFormCode,  \* tracking code bound to #studentReplyForm, Null when absent
    now,            \* the clock, read by Date.now() and new Date()
    last,           \* the handler that ran last, its inputs and its locals
    generating,     \* the generateTrackingCode call in progress, taken call by
                    \* recursive call: [pc, code, collisions]
    tabs,           \* two pages open on the site, each running its handlers
                    \* between its getMessages and its saveMessages
    everResponded,  \* tracking codes of the stored records that have had
                    \* status responded or a reply at some point
    GamificationSystem, \* GamificationSystem.progress and the unlocked /
                    \* progress fields of GamificationSystem.achievements
    AppointmentSystem,  \* AppointmentSystem.appointments
    notified,       \* calls of NotificationSystem.notifyAppointment, counted
                    \* per appointment since it was last rescheduled
    hoursNow        \* the wall clock in hours, read by checkReminders

modules == <<GamificationSystem, AppointmentSystem, notified, hoursNow>>

vars == <<localStorage, AppState, replyFormCode, now, last, generating, tabs,
          everResponded, GamificationSystem, AppointmentSystem, notified,
          hoursNow>>

\* ------------------------------------------------------------------------
\* Strings
\* ------------------------------------------------------------------------
charAt(s, i) == SubSeq(s, i + 1, i + 1)

UpperChars == "ABCDEFGHIJKLMNOPQRSTUVWXYZÁÉÍÓÚÑÜ"
LowerChars == "abcdefghijklmnopqrstuvwxyzáéíóúñü"

\* single-character strings of the two alphabets, and the maps between them
UpperSet == {SubSeq(UpperChars, i, i) : i \in 1..Len(UpperChars)}
LowerSet == {SubSeq(LowerChars, i, i) : i \in 1..Len(LowerChars)}

LowerOf == [c \in UpperSet |->
    LET i == CHOOSE j \in 1..Len(UpperChars) : SubSeq(UpperChars, j, j) = c
    IN  SubSeq(LowerChars, i, i)]

UpperOf == [c \in LowerSet |->
    LET i == CHOOSE j \in 1..Len(LowerChars) : SubSeq(LowerChars, j, j) = c
    IN  SubSeq(UpperChars, i, i)]

toLowerChar(c) == IF c \in UpperSet THEN LowerOf[c] ELSE c
toUpperChar(c) == IF c \in LowerSet THEN UpperOf[c] ELSE c

RECURSIVE toLowerCase(_)
toLowerCase(s) ==
    IF Len(s) = 0 THEN ""
    ELSE toLowerChar(SubSeq(s, 1, 1)) \o toLowerCase(SubSeq(s, 2, Len(s)))

RECURSIVE toUpperCase(_)
toUpperCase(s) ==
    IF Len(s) = 0 THEN ""
    ELSE toUpperChar(SubSeq(s, 1, 1)) \o toUpperCase(SubSeq(s, 2, Len(s)))

\* includes, were it to match whole words only
includesWord(s, w) ==
    \E i \in 1..(Len(s) - Len(w) + 1) :
        /\ SubSeq(s, i, i + Len(w) - 1) = w
        /\ i = 1 \/ SubSeq(s, i - 1, i - 1) = " "
        /\ i + Len(w) - 1 = Len(s) \/ SubSeq(s, i + Len(w), i + Len(w)) = " "

\* the substring test, were it to look at the start of s only (startsWith)
includesAtStart(s, w) ==
    Len(w) <= Len(s) /\ SubSeq(s, 1, Len(w)) = w

\* String.prototype.includes: w occurs in s as a contiguous substring
includes(s, w) ==
    \E i \in 1..(Len(s) - Len(w) + 1) : SubSeq(s, i, i + Len(w) - 1) = w

\* ------------------------------------------------------------------------
\* CrisisDetection
\* ------------------------------------------------------------------------
\* Object.entries(this.keywords) enumerates the categories in insertion order
CategoryOrder == <<"suicide", "selfHarm", "violence", "severe", "death">>

keywords == [c \in {"suicide", "selfHarm", "violence", "severe", "death"} |->
    CASE c = "suicide"  -> <<"suicidio", "suicidarme", "quitarme la vida",
                             "acabar con todo", "no quiero vivir",
                             "mejor muerto", "matarme">>
      [] c = "selfHarm" -> <<"cortarme", "hacerme daño", "lastimarme",
                             "autolesión", "herirme", "golpearme">>
      [] c = "violence" -> <<"matar", "violencia", "arma", "pistola",
                             "cuchillo", "atacar", "venganza">>
      [] c = "severe"   -> <<"desesperado", "sin salida", "no puedo más",
                             "insoportable", "horrible", "terrible">>
      [] c = "death"    -> <<"muerte", "morir", "muerto", "funeral",
                             "despedida final">>]

\* the if / else-if chain that adds the score of one detected keyword
severityOf(category) ==
    IF category = "suicide" THEN 10
    ELSE IF category = "selfHarm" THEN 8
    ELSE IF category = "violence" THEN 9
    ELSE IF category = "death" THEN 7
    ELSE IF category = "severe" THEN 5
    ELSE 0

\* the inner loop, were it to score a keyword once for every place where it
\* occurs in the text
RECURSIVE analyzeWordsEveryOccurrence(_, _, _, _)
analyzeWordsEveryOccurrence(lowerMessage, category, words, acc) ==
    IF words = <<>> THEN acc
    ELSE LET word == Head(words)
             places == Cardinality(
                 {i \in 1..(Len(lowerMessage) - Len(word) + 1) :
                     SubSeq(lowerMessage, i, i + Len(word) - 1) = word})
             next == IF includes(lowerMessage, word)
                     THEN [detectedKeywords |->
                               Append(acc.detectedKeywords,
                                      [word |-> word, category |-> category]),
                           severityScore |->
                               acc.severityScore + places * severityOf(category)]
                     ELSE acc
         IN  analyzeWordsEveryOccurrence(lowerMessage, category, Tail(words), next)

\* the inner loop, were it to stop at the first keyword found (a break after
\* the push, so that a category counts once)
RECURSIVE analyzeWordsFirstOnly(_, _, _, _)
analyzeWordsFirstOnly(lowerMessage, category, words, acc) ==
    IF words = <<>> THEN acc
    ELSE IF includes(lowerMessage, Head(words))
    THEN [detectedKeywords |->
              Append(acc.detectedKeywords,
                     [word |-> Head(words), category |-> category]),
          severityScore |-> acc.severityScore + severityOf(category)]
    ELSE analyzeWordsFirstOnly(lowerMessage, category, Tail(words), acc)

\* inner loop: for (const word of words)
RECURSIVE analyzeWords(_, _, _, _)
analyzeWords(lowerMessage, category, words, acc) ==
    IF words = <<>> THEN acc
    ELSE LET word == Head(words)
             next == IF includes(lowerMessage, word)
                     THEN [detectedKeywords |->
                               Append(acc.detectedKeywords,
                                      [word |-> word, category |-> category]),
                           severityScore |->
                               acc.severityScore + severityOf(category)]
                     ELSE acc
         IN  analyzeWords(lowerMessage, category, Tail(words), next)

\* outer loop: for (const [category, words] of Object.entries(this.keywords))
RECURSIVE analyzeCategories(_, _, _)
analyzeCategories(lowerMessage, cats, acc) ==
    IF cats = <<>> THEN acc
    ELSE analyzeCategories(lowerMessage, Tail(cats),
             analyzeWords(lowerMessage, Head(cats), keywords[Head(cats)], acc))

\* the threshold chain, were its second test strict (> 7 for >= 7)
determineLevelStrict(severityScore) ==
    IF severityScore >= 10 THEN [crisisLevel |-> "critical", isCrisis |-> TRUE]
    ELSE IF severityScore > 7 THEN [crisisLevel |-> "high", isCrisis |-> TRUE]
    ELSE IF severityScore >= 5 THEN [crisisLevel |-> "moderate", isCrisis |-> TRUE]
    ELSE [crisisLevel |-> "none", isCrisis |-> FALSE]

\* the threshold chain: each branch sets crisisLevel and isCrisis
determineLevel(severityScore) ==
    IF severityScore >= 10 THEN [crisisLevel |-> "critical", isCrisis |-> TRUE]
    ELSE IF severityScore >= 7 THEN [crisisLevel |-> "high", isCrisis |-> TRUE]
    ELSE IF severityScore >= 5 THEN [crisisLevel |-> "moderate", isCrisis |-> TRUE]
    ELSE [crisisLevel |-> "none", isCrisis |-> FALSE]

getRecommendation(level) ==
    CASE level = "critical" -> "ACCIÓN INMEDIATA REQUERIDA: Contactar al estudiante de inmediato. Considerar intervención de emergencia."
      [] level = "high"     -> "ALTA PRIORIDAD: Responder dentro de las próximas 2 horas. Evaluar necesidad de intervención."
      [] level = "moderate" -> "PRIORIDAD MEDIA: Responder dentro del mismo día. Monitorear de cerca."
      [] OTHER              -> "Seguimiento estándar según protocolo."

\* the categories of the detected keywords, were they not passed through a Set
dedupeKeepsAll(xs, seen) == xs

\* [...new Set(xs)]: first occurrences, in order
RECURSIVE dedupe(_, _)
dedupe(xs, seen) ==
    IF xs = <<>> THEN <<>>
    ELSE IF Head(xs) \in seen THEN dedupe(Tail(xs), seen)
    ELSE <<Head(xs)>> \o dedupe(Tail(xs), seen \cup {Head(xs)})

analyze(message) ==
    LET lowerMessage == toLowerCase(message)
        scan == analyzeCategories(lowerMessage, CategoryOrder,
                    [detectedKeywords |-> <<>>, severityScore |-> 0])
        level == determineLevel(scan.severityScore)
        crisisLevel == level.crisisLevel
    IN  [isCrisis         |-> level.isCrisis,
         crisisLevel      |-> crisisLevel,
         severityScore    |-> scan.severityScore,
         detectedKeywords |-> [i \in 1..Len(scan.detectedKeywords) |->
                                  scan.detectedKeywords[i].word],
         categories       |-> dedupe([i \in 1..Len(scan.detectedKeywords) |->
                                  scan.detectedKeywords[i].category], {}),
         recommendation   |-> getRecommendation(crisisLevel)]

\* adjustUrgency, were it to lack its third rule
adjustUrgencyNoModerateRule(currentUrgency, analysis) ==
    IF analysis.crisisLevel = "critical" THEN "urgente"
    ELSE IF analysis.crisisLevel = "high" THEN "alta"
    ELSE currentUrgency

\* adjustUrgency, were the third rule to lack its test of the declared urgency
adjustUrgencyModerateForces(currentUrgency, analysis) ==
    IF analysis.crisisLevel = "critical" THEN "urgente"
    ELSE IF analysis.crisisLevel = "high" THEN "alta"
    ELSE IF analysis.crisisLevel = "moderate" THEN "media"
    ELSE currentUrgency

\* adjustUrgency, were the second rule to spare a declared urgente
adjustUrgencyKeepsUrgente(currentUrgency, analysis) ==
    IF analysis.crisisLevel = "critical" THEN "urgente"
    ELSE IF analysis.crisisLevel = "high" /\ currentUrgency # "urgente" THEN "alta"
    ELSE IF analysis.crisisLevel = "moderate" /\ currentUrgency = "baja" THEN "media"
    ELSE currentUrgency

adjustUrgency(currentUrgency, analysis) ==
    IF analysis.crisisLevel = "critical" THEN "urgente"
    ELSE IF analysis.crisisLevel = "high" THEN "alta"
    ELSE IF analysis.crisisLevel = "moderate" /\ currentUrgency = "baja" THEN "media"
    ELSE currentUrgency

\* ------------------------------------------------------------------------
\* Storage (app.js)
\* ------------------------------------------------------------------------
\* localStorage.getItem returns null for a key never written
getMessages == IF localStorage.present THEN localStorage.data ELSE <<>>

\* saveMessages(messages): the new value of the key and of AppState.messages
savedStorage(messages) == [present |-> TRUE, data |-> messages]
savedAppState(messages) == [AppState EXCEPT !.messages = messages]

\* ------------------------------------------------------------------------
\* Tracking codes (app.js)
\* ------------------------------------------------------------------------
\* the alphabet, were it to keep every capital letter and digit
charsWithAmbiguous == "ABCDEFGHIJKLMNOPQRSTUVWXYZ0123456789"

chars == "ABCDEFGHJKLMNPQRSTUVWXYZ23456789"

\* One pass of the for loop: draw[i] is Math.floor(Math.random() * chars.length)
RECURSIVE buildCode(_)
buildCode(draw) ==
    IF draw = <<>> THEN ""
    ELSE charAt(chars, Head(draw)) \o buildCode(Tail(draw))

\* Math.random outcomes of one pass of the 8-character loop
RandomDraws ==
    {<<0, 1, 2, 3, 4, 5, 6, 7>>,
     <<31, 30, 29, 28, 27, 26, 25, 24>>}

\* the code each outcome builds
codeOf == [draw \in RandomDraws |-> buildCode(draw)]

\* messages.some(m => m.trackingCode === code)
codeInUse(messages, code) ==
    \E i \in 1..Len(messages) : messages[i].trackingCode = code

\* generateTrackingCode, were it to return its first code unchecked
generateTrackingCodeUnchecked(draws) == codeOf[Head(draws)]

\* draws: the random outcomes of the successive (recursive) calls
RECURSIVE generateTrackingCode(_)
generateTrackingCode(draws) ==
    LET code == codeOf[Head(draws)]
    IN  IF codeInUse(getMessages, code) /\ Len(draws) > 1
        THEN generateTrackingCode(Tail(draws))
        ELSE code

\* the recursion ends exactly at the last of the draws
EndsAtLast(draws) ==
    /\ Len(draws) >= 1
    /\ \A i \in 1..Len(draws) :
          codeInUse(getMessages, codeOf[draws[i]]) <=> i < Len(draws)

\* ------------------------------------------------------------------------
\* Clock
\* ------------------------------------------------------------------------
\* Date.now().toString()
DateNowString == ToString(now)
\* new Date().toISOString(): the instant, at millisecond resolution
toISOString == now

\* ------------------------------------------------------------------------
\* Record lifecycle (app.js, counselor.js)
\* ------------------------------------------------------------------------
Null == "<null>"

\* addMessage, were it to add the record at the end (push) of the collection
addMessagePush(messageData, draws) ==
    LET messages == getMessages
        trackingCode == generateTrackingCode(draws)
        crisisAnalysis == analyze(messageData.message)
        adjustedUrgency == adjustUrgency(messageData.urgency, crisisAnalysis)
        newMessage == [id             |-> DateNowString,
                       trackingCode   |-> trackingCode,
                       category       |-> messageData.category,
                       urgency        |-> adjustedUrgency,
                       message        |-> messageData.message,
                       mood           |-> messageData.mood,
                       timestamp      |-> toISOString,
                       status         |-> "new",
                       crisisDetected |-> crisisAnalysis.isCrisis,
                       crisisLevel    |-> crisisAnalysis.crisisLevel,
                       crisisKeywords |-> crisisAnalysis.detectedKeywords,
                       replies        |-> <<>>,
                       counselorNotes |-> ""]
    IN  messages \o <<newMessage>>

\* addMessage, were it to store the declared urgency instead of the adjusted
addMessageDeclaredUrgency(messageData, draws) ==
    LET messages == getMessages
        trackingCode == generateTrackingCode(draws)
        crisisAnalysis == analyze(messageData.message)
        newMessage == [id             |-> DateNowString,
                       trackingCode   |-> trackingCode,
                       category       |-> messageData.category,
                       urgency        |-> messageData.urgency,
                       message        |-> messageData.message,
                       mood           |-> messageData.mood,
                       timestamp      |-> toISOString,
                       status         |-> "new",
                       crisisDetected |-> crisisAnalysis.isCrisis,
                       crisisLevel    |-> crisisAnalysis.crisisLevel,
                       crisisKeywords |-> crisisAnalysis.detectedKeywords,
                       replies        |-> <<>>,
                       counselorNotes |-> ""]
    IN  <<newMessage>> \o messages

addMessage(messageData, draws) ==
    LET messages == getMessages
        trackingCode == generateTrackingCode(draws)
        crisisAnalysis == analyze(messageData.message)
        adjustedUrgency == adjustUrgency(messageData.urgency, crisisAnalysis)
        newMessage == [id             |-> DateNowString,
                       trackingCode   |-> trackingCode,
                       category       |-> messageData.category,
                       urgency        |-> adjustedUrgency,
                       message        |-> messageData.message,
                       mood           |-> messageData.mood,
                       timestamp      |-> toISOString,
                       status         |-> "new",
                       crisisDetected |-> crisisAnalysis.isCrisis,
                       crisisLevel    |-> crisisAnalysis.crisisLevel,
                       crisisKeywords |-> crisisAnalysis.detectedKeywords,
                       replies        |-> <<>>,
                       counselorNotes |-> ""]
    IN  <<newMessage>> \o messages

\* Array.prototype.find / findIndex: first index that matches, 0 when none
findById(messages, messageId) ==
    IF \E i \in 1..Len(messages) : messages[i].id = messageId
    THEN CHOOSE i \in 1..Len(messages) :
            /\ messages[i].id = messageId
            /\ \A j \in 1..(i - 1) : messages[j].id # messageId
    ELSE 0

findIndexByCode(messages, trackingCode) ==
    IF \E i \in 1..Len(messages) : messages[i].trackingCode = trackingCode
    THEN CHOOSE i \in 1..Len(messages) :
            /\ messages[i].trackingCode = trackingCode
            /\ \A j \in 1..(i - 1) : messages[j].trackingCode # trackingCode
    ELSE 0

\* getMessageByCode, were it to fall back on the newest record
getMessageByCodeOrFirst(code) ==
    LET messages == getMessages
        wanted == toUpperCase(code)
        upper == [i \in 1..Len(messages) |-> toUpperCase(messages[i].trackingCode)]
    IN  IF \E i \in 1..Len(messages) : upper[i] = wanted
        THEN CHOOSE i \in 1..Len(messages) :
                /\ upper[i] = wanted
                /\ \A j \in 1..(i - 1) : upper[j] # wanted
        ELSE IF Len(messages) > 0 THEN 1 ELSE 0

\* getMessageByCode: compares the upper-cased codes
getMessageByCode(code) ==
    LET messages == getMessages
        wanted == toUpperCase(code)
        upper == [i \in 1..Len(messages) |-> toUpperCase(messages[i].trackingCode)]
    IN  IF \E i \in 1..Len(messages) : upper[i] = wanted
        THEN CHOOSE i \in 1..Len(messages) :
                /\ upper[i] = wanted
                /\ \A j \in 1..(i - 1) : upper[j] # wanted
        ELSE 0

\* the status rule of a counselor reply, were it to set responded always
statusAlwaysResponded(status) == "responded"

\* the status a counselor reply leaves behind
statusAfterCounselorReply(status) ==
    IF status = "new" \/ status = "in-review" THEN "responded" ELSE status

\* a counselor reply, were it to put the reply before the earlier ones
counselorRepliedPrepends(message, replyText, notes) ==
    [message EXCEPT
        !.replies = <<[from |-> "counselor", message |-> replyText,
                       timestamp |-> toISOString]>> \o @,
        !.counselorNotes = notes,
        !.status = statusAfterCounselorReply(@)]

\* a counselor reply, were it to classify the conversation again
counselorRepliedReclassifies(message, replyText, notes) ==
    [message EXCEPT
        !.replies = Append(@, [from |-> "counselor", message |-> replyText,
                               timestamp |-> toISOString]),
        !.counselorNotes = notes,
        !.status = statusAfterCounselorReply(@),
        !.crisisLevel = analyze(replyText).crisisLevel,
        !.crisisDetected = analyze(replyText).isCrisis,
        !.crisisKeywords = analyze(replyText).detectedKeywords]

counselorReplied(message, replyText, notes) ==
    [message EXCEPT
        !.replies = Append(@, [from |-> "counselor", message |-> replyText,
                               timestamp |-> toISOString]),
        !.counselorNotes = notes,
        !.status = statusAfterCounselorReply(@)]

\* a student reply, were it to leave a resolved record resolved
studentRepliedKeepsResolved(message, replyText) ==
    [message EXCEPT
        !.replies = Append(@, [from |-> "student", message |-> replyText,
                               timestamp |-> toISOString]),
        !.status = IF @ = "resolved" THEN @ ELSE "responded"]

studentReplied(message, replyText) ==
    [message EXCEPT
        !.replies = Append(@, [from |-> "student", message |-> replyText,
                               timestamp |-> toISOString]),
        !.status = "responded"]

\* String.prototype.trim, for the blanks the inputs use
RECURSIVE trimStart(_)
trimStart(s) ==
    IF Len(s) > 0 /\ SubSeq(s, 1, 1) = " " THEN trimStart(SubSeq(s, 2, Len(s))) ELSE s

RECURSIVE trimEnd(_)
trimEnd(s) ==
    IF Len(s) > 0 /\ SubSeq(s, Len(s), Len(s)) = " "
    THEN trimEnd(SubSeq(s, 1, Len(s) - 1)) ELSE s

trim(s) == trimEnd(trimStart(s))

\* ------------------------------------------------------------------------
\* Inputs
\* ------------------------------------------------------------------------
Urgencies == {"baja", "media", "alta", "urgente"}
Statuses == {"new", "in-review", "responded", "resolved"}
Levels == {"none", "moderate", "high", "critical"}
Moods == {Null, "triste"}

\* what a submitter types in the lifecycle specification
SubmitForms ==
    {[category |-> "bullying", urgency |-> "urgente",
      message |-> "tengo miedo de morir"]}

CounselorTexts == {"te escucho"}
CounselorNotes == {"", "seguimiento"}
StudentTexts == {"gracias", "  "}

DrawSeqs == UNION {[1..n -> RandomDraws] : n \in 1..MaxDraws}

\* fragments the analysed texts are made of
Fragments ==
    {"hola", "desesperado", "Horrible", "muerte", "MORIR", "cortarme",
     "pistola", "alarma", "matarme", "mejor muerto", "AUTOLESIÓN",
     "sin", "salida"}

ExampleText == "me siento desesperado y quiero matarme"

joinWords(t, f) == IF t = "" THEN f ELSE t \o " " \o f

RECURSIVE TextsUpTo(_)
TextsUpTo(n) ==
    IF n = 0 THEN {""}
    ELSE LET shorter == TextsUpTo(n - 1)
         IN  shorter \cup {joinWords(t, f) : t \in shorter, f \in Fragments}

Texts == TextsUpTo(MaxWords) \cup {ExampleText}

NoAnalysis == [isCrisis |-> FALSE, crisisLevel |-> "", severityScore |-> 0,
               detectedKeywords |-> <<>>, categories |-> <<>>,
               recommendation |-> ""]

Last(op, key, text, extra, analysis) ==
    [op |-> op, key |-> key, text |-> text, extra |-> extra, analysis |-> analysis]

totalReplies(messages) ==
    LET RECURSIVE sum(_)
        sum(i) == IF i = 0 THEN 0 ELSE Len(messages[i].replies) + sum(i - 1)
    IN  sum(Len(messages))

\* a further reply fits the model
RoomForReply == totalReplies(getMessages) < MaxReplies

\* ------------------------------------------------------------------------
\* Handlers
\* ------------------------------------------------------------------------
\* no generateTrackingCode call is in progress
NotGenerating == [pc |-> "idle", code |-> "", collisions |-> 0]

\* the pages open at the same time
Tabs == {"tab1", "tab2"}

NoOp == [kind |-> "", key |-> "", text |-> "", extra |-> ""]

\* a page between two handler calls: messages is its AppState.messages,
\* calls the number of calls it has made
IdleTab(messages, calls) ==
    [pc |-> "idle", op |-> NoOp, base |-> <<>>, messages |-> messages,
     overtaken |-> NoOp, calls |-> calls]

\* the records of a collection that are responded or have a reply, by code
respondedIn(messages) ==
    {messages[i].trackingCode : i \in {j \in 1..Len(messages) :
        \/ messages[j].status = "responded"
        \/ messages[j].replies # <<>>}}

\* the codes remembered once a handler has written the store
Remembered == everResponded \cup respondedIn(getMessages')

\* GamificationSystem as the script defines it: no points, level 1, nothing
\* unlocked, no check-in and no challenge assigned
AchievementIds ==
    {"first_voice", "help_seeker", "week_streak", "challenge_master",
     "resilient", "communicator", "tracker"}

\* a date that is null: no check-in yet, no challenge assigned yet
NoDay == -1

InitialGamification ==
    [points |-> 0, level |-> 1, streak |-> 0, lastCheckin |-> NoDay,
     todayChallenge |-> Null, challengeCompleted |-> FALSE,
     lastChallengeDate |-> NoDay,
     unlocked |-> [a \in AchievementIds |-> FALSE],
     progress |-> [a \in AchievementIds |-> 0]]

Init ==
    /\ localStorage = [present |-> FALSE, data |-> <<>>]
    /\ AppState = [messages |-> <<>>]
    /\ replyFormCode = Null
    /\ now = 0
    /\ last = Last("initApp", "", "", "", NoAnalysis)
    /\ generating = NotGenerating
    /\ tabs = [t \in Tabs |-> IdleTab(<<>>, 0)]
    /\ everResponded = {}
    /\ GamificationSystem = InitialGamification
    /\ AppointmentSystem = [appointments |-> <<>>]
    /\ notified = <<>>
    /\ hoursNow = 0

\* the clock advances
Tick ==
    /\ now < MaxClock
    /\ now' = now + 1
    /\ UNCHANGED <<localStorage, AppState, replyFormCode, last, generating, tabs,
                   everResponded, modules>>

\* handleMessageSubmit: fields are the values of #category, #urgency and
\* #message, selectedMood is AppState.selectedMood when the form is submitted
handleMessageSubmit(fields, selectedMood, draws) ==
    LET formData == [category |-> fields.category, urgency |-> fields.urgency,
                     message |-> fields.message, mood |-> selectedMood]
    IN  IF formData.mood = Null \/ formData.mood = ""
        THEN /\ last' = Last("handleMessageSubmit", "", formData.message,
                             formData.urgency, NoAnalysis)
             /\ UNCHANGED <<localStorage, AppState>>
        ELSE LET messages == addMessage(formData, draws)
             IN  /\ localStorage' = savedStorage(messages)
                 /\ AppState' = savedAppState(messages)
                 /\ last' = Last("handleMessageSubmit", messages[1].trackingCode,
                                 formData.message, formData.urgency,
                                 analyze(formData.message))

\* the submitter fills the form, picks a mood (or none) and submits
SubmitMessage ==
    \E draws \in DrawSeqs, f \in SubmitForms, mood \in Moods :
        /\ EndsAtLast(draws)
        /\ handleMessageSubmit(f, mood, draws)
        /\ everResponded' = Remembered
        /\ UNCHANGED <<replyFormCode, now, generating, tabs, modules>>

\* handleTrackMessage, were #studentReplyForm rendered for every record found
handleTrackMessageAlwaysForm(typed) ==
    LET code == trim(typed)
        i == getMessageByCode(code)
        messages == getMessages
    IN  IF code = ""
        THEN /\ last' = Last("handleTrackMessage", "", "", "empty", NoAnalysis)
             /\ UNCHANGED replyFormCode
        ELSE IF i = 0
        THEN /\ last' = Last("handleTrackMessage", "", code, "not found", NoAnalysis)
             /\ replyFormCode' = Null
        ELSE /\ last' = Last("handleTrackMessage", messages[i].trackingCode, code,
                             "found", NoAnalysis)
             /\ replyFormCode' = messages[i].trackingCode

\* handleTrackMessage: renders the record found, with #studentReplyForm when
\* the record is responded or has replies; any earlier form is replaced
handleTrackMessage(typed) ==
    LET code == trim(typed)
        i == getMessageByCode(code)
        messages == getMessages
    IN  IF code = ""
        THEN /\ last' = Last("handleTrackMessage", "", "", "empty", NoAnalysis)
             /\ UNCHANGED replyFormCode
        ELSE IF i = 0
        THEN /\ last' = Last("handleTrackMessage", "", code, "not found", NoAnalysis)
             /\ replyFormCode' = Null
        ELSE /\ last' = Last("handleTrackMessage", messages[i].trackingCode, code,
                             "found", NoAnalysis)
             /\ replyFormCode' =
                    IF messages[i].status = "responded"
                       \/ Len(messages[i].replies) > 0
                    THEN messages[i].trackingCode
                    ELSE Null

TrackInputs ==
    {getMessages[i].trackingCode : i \in 1..Len(getMessages)}
    \cup {toLowerCase(getMessages[i].trackingCode) : i \in 1..Len(getMessages)}
    \cup {"NOEXISTE"}

TrackMessage ==
    \E typed \in TrackInputs :
        /\ handleTrackMessage(typed)
        /\ UNCHANGED <<localStorage, AppState, now, generating, tabs,
                   everResponded, modules>>

\* handleStudentReply(trackingCode), replyText the value of #studentReplyText
handleStudentReply(trackingCode, typed) ==
    LET replyText == trim(typed)
        messages == getMessages
        messageIndex == findIndexByCode(messages, trackingCode)
    IN  IF replyText = ""
        THEN /\ last' = Last("handleStudentReply", trackingCode, replyText,
                             "empty", NoAnalysis)
             /\ UNCHANGED <<localStorage, AppState>>
        ELSE IF messageIndex = 0
        THEN /\ last' = Last("handleStudentReply", trackingCode, replyText,
                             "not found", NoAnalysis)
             /\ UNCHANGED <<localStorage, AppState>>
        ELSE LET saved == [messages EXCEPT
                              ![messageIndex] = studentReplied(@, replyText)]
             IN  /\ localStorage' = savedStorage(saved)
                 /\ AppState' = savedAppState(saved)
                 /\ last' = Last("handleStudentReply", trackingCode, replyText,
                                 messages[messageIndex].status, NoAnalysis)

\* the submit listener of #studentReplyForm, bound to the rendered record
StudentReply ==
    \E typed \in StudentTexts :
        /\ RoomForReply
        /\ replyFormCode # Null
        /\ handleStudentReply(replyFormCode, typed)
        /\ everResponded' = Remembered
        /\ UNCHANGED <<replyFormCode, now, generating, tabs, modules>>

\* updateMessageStatus, were it to refuse to reopen a resolved record
updateMessageStatusResolvedFinal(messageId, newStatus) ==
    LET messages == getMessages
        i == findById(messages, messageId)
    IN  IF i # 0 /\ messages[i].status # "resolved"
        THEN LET saved == [messages EXCEPT ![i].status = newStatus]
             IN  /\ localStorage' = savedStorage(saved)
                 /\ AppState' = savedAppState(saved)
                 /\ last' = Last("updateMessageStatus", messageId, "", newStatus,
                                 NoAnalysis)
        ELSE /\ last' = Last("updateMessageStatus", messageId, "", newStatus,
                             NoAnalysis)
             /\ UNCHANGED <<localStorage, AppState>>

\* updateMessageStatus, were it to save the changed record alone
updateMessageStatusSavesOne(messageId, newStatus) ==
    LET messages == getMessages
        i == findById(messages, messageId)
    IN  IF i # 0
        THEN LET saved == <<[messages[i] EXCEPT !.status = newStatus]>>
             IN  /\ localStorage' = savedStorage(saved)
                 /\ AppState' = savedAppState(saved)
                 /\ last' = Last("updateMessageStatus", messageId, "", newStatus,
                                 NoAnalysis)
        ELSE /\ last' = Last("updateMessageStatus", messageId, "", "not found",
                             NoAnalysis)
             /\ UNCHANGED <<localStorage, AppState>>

\* updateMessageStatus(messageId, newStatus)
updateMessageStatus(messageId, newStatus) ==
    LET messages == getMessages
        i == findById(messages, messageId)
    IN  IF i # 0
        THEN LET saved == [messages EXCEPT ![i].status = newStatus]
             IN  /\ localStorage' = savedStorage(saved)
                 /\ AppState' = savedAppState(saved)
                 /\ last' = Last("updateMessageStatus", messageId, "", newStatus,
                                 NoAnalysis)
        ELSE /\ last' = Last("updateMessageStatus", messageId, "", "not found",
                             NoAnalysis)
             /\ UNCHANGED <<localStorage, AppState>>

\* a status button of the detail modal of a stored record
UpdateStatus ==
    \E i \in 1..Len(getMessages), newStatus \in Statuses :
        /\ updateMessageStatus(getMessages[i].id, newStatus)
        /\ everResponded' = Remembered
        /\ UNCHANGED <<replyFormCode, now, generating, tabs, modules>>

\* handleReplySubmit: messageId is the form's data-message-id, replyText and
\* notes the values of #replyMessage and #counselorNotes
handleReplySubmit(messageId, replyText, notes) ==
    LET messages == getMessages
        i == findById(messages, messageId)
    IN  IF i # 0
        THEN LET saved == [messages EXCEPT
                              ![i] = counselorReplied(@, replyText, notes)]
             IN  /\ localStorage' = savedStorage(saved)
                 /\ AppState' = savedAppState(saved)
                 /\ last' = Last("handleReplySubmit", messageId, replyText, notes,
                                 NoAnalysis)
        ELSE /\ last' = Last("handleReplySubmit", messageId, replyText,
                             "not found", NoAnalysis)
             /\ UNCHANGED <<localStorage, AppState>>

\* the reply form of the detail modal of a stored record
CounselorReply ==
    \E i \in 1..Len(getMessages), replyText \in CounselorTexts,
       notes \in CounselorNotes :
        /\ RoomForReply
        /\ handleReplySubmit(getMessages[i].id, replyText, notes)
        /\ everResponded' = Remembered
        /\ UNCHANGED <<replyFormCode, now, generating, tabs, modules>>

\* SecuritySystem.clearHistory, confirmed: localStorage.clear() removes the
\* collection, and the page that cleared reloads (initApp runs again)
clearHistory ==
    /\ localStorage' = [present |-> FALSE, data |-> <<>>]
    /\ last' = Last("clearHistory", "", "", "", NoAnalysis)

\* the history is cleared from this page, which reloads, or from another open
\* page of the site, which leaves this page and its reply form as they are
ClearHistory ==
    /\ localStorage.present
    /\ clearHistory
    /\ \/ AppState' = [messages |-> <<>>] /\ replyFormCode' = Null
       \/ UNCHANGED <<AppState, replyFormCode>>
    /\ everResponded' = {}
    /\ UNCHANGED <<now, generating, tabs, modules>>

Next ==
    \/ Tick
    \/ SubmitMessage
    \/ TrackMessage
    \/ StudentReply
    \/ UpdateStatus
    \/ CounselorReply

Spec == Init /\ [][Next]_vars

\* ------------------------------------------------------------------------
\* The lookup specification: submissions, replies and lookups on a site whose
\* history can be cleared while a reply form is open
\* ------------------------------------------------------------------------
NextLookup ==
    \/ SubmitMessage
    \/ TrackMessage
    \/ StudentReply
    \/ CounselorReply
    \/ ClearHistory

SpecLookup == Init /\ [][NextLookup]_vars

\* ------------------------------------------------------------------------
\* The generator specification: generateTrackingCode taken one (recursive)
\* call at a time, within a submission
\* ------------------------------------------------------------------------
\* some code of the code space is used by no stored record
FreeCode == \E draw \in RandomDraws : ~codeInUse(getMessages, codeOf[draw])

\* one call, were it to recurse whenever the collection holds a record
generateTrackingCodeCallLoops(draw) ==
    LET code == codeOf[draw]
    IN  IF Len(getMessages) > 0
        THEN [pc |-> "drawing", code |-> code,
              collisions |-> IF generating.collisions < MaxCollisions
                             THEN generating.collisions + 1
                             ELSE generating.collisions]
        ELSE [pc |-> "returned", code |-> code,
              collisions |-> generating.collisions]

\* one call of generateTrackingCode: it builds a code from its draw and, when
\* a stored record uses the code, calls itself again; otherwise it returns
\* the code
generateTrackingCodeCall(draw) ==
    LET code == codeOf[draw]
    IN  IF codeInUse(getMessages, code)
        THEN [pc |-> "drawing", code |-> code,
              collisions |-> IF generating.collisions < MaxCollisions
                             THEN generating.collisions + 1
                             ELSE generating.collisions]
        ELSE [pc |-> "returned", code |-> code,
              collisions |-> generating.collisions]

\* a submission with a mood reaches addMessage, which calls generateTrackingCode
CallGenerate ==
    /\ generating.pc = "idle"
    /\ generating' = [pc |-> "drawing", code |-> "", collisions |-> 0]
    /\ UNCHANGED <<localStorage, AppState, replyFormCode, now, last, tabs,
                   everResponded, modules>>

DrawCode(draw) ==
    /\ generating.pc = "drawing"
    /\ generating' = generateTrackingCodeCall(draw)
    /\ UNCHANGED <<localStorage, AppState, replyFormCode, now, last, tabs,
                   everResponded, modules>>

Draw == \E draw \in RandomDraws : DrawCode(draw)

\* addMessage goes on with the code returned and stores the record
StoreGenerated ==
    /\ generating.pc = "returned"
    /\ \E draw \in RandomDraws, f \in SubmitForms :
          /\ codeOf[draw] = generating.code
          /\ handleMessageSubmit(f, "triste", <<draw>>)
    /\ generating' = NotGenerating
    /\ everResponded' = Remembered
    /\ UNCHANGED <<replyFormCode, now, tabs, modules>>

\* handlers run to completion: none starts while a call is in progress
UpdateStatusIdle == generating.pc = "idle" /\ UpdateStatus
ClearHistoryIdle == generating.pc = "idle" /\ ClearHistory

NextGenerate ==
    \/ Tick
    \/ CallGenerate
    \/ Draw
    \/ StoreGenerated
    \/ UpdateStatusIdle
    \/ ClearHistoryIdle

\* Math.random is fair: an outcome that stays possible is drawn eventually
SpecGenerate ==
    /\ Init
    /\ [][NextGenerate]_vars
    /\ \A draw \in RandomDraws : WF_vars(DrawCode(draw))

\* ------------------------------------------------------------------------
\* The pages specification: two pages open on the site at once. A handler
\* that changes the collection is taken in two steps, its getMessages with
\* the change it makes to the array it read, and its saveMessages; a step of
\* the other page can fall between the two. AppState.messages of a page is
\* tabs[t].messages.
\* ------------------------------------------------------------------------
Op(kind, key, text, extra) ==
    [kind |-> kind, key |-> key, text |-> text, extra |-> extra]

\* page t has read the collection and changed its copy
Loaded(t, op, messages) ==
    [tabs EXCEPT ![t] = [pc |-> "loaded", op |-> op, base |-> getMessages,
                         messages |-> messages, overtaken |-> NoOp,
                         calls |-> @.calls + 1]]

CanCall(t) == tabs[t].pc = "idle" /\ tabs[t].calls < MaxCalls

\* addMessage up to messages.unshift(newMessage)
TabAddMessage(t) ==
    \E draws \in DrawSeqs, f \in SubmitForms :
        LET formData == [category |-> f.category, urgency |-> f.urgency,
                         message |-> f.message, mood |-> "triste"]
            messages == addMessage(formData, draws)
        IN  /\ CanCall(t)
            /\ EndsAtLast(draws)
            /\ tabs' = Loaded(t, Op("addMessage", messages[1].trackingCode,
                                    f.message, f.urgency), messages)
            /\ UNCHANGED <<localStorage, AppState, replyFormCode, now, last, generating,
                   everResponded, modules>>

\* handleReplySubmit up to the status update of the record found
TabReplySubmit(t) ==
    \E n \in 1..Len(getMessages), replyText \in CounselorTexts,
       notes \in CounselorNotes :
        LET messages == getMessages
            messageId == messages[n].id
            i == findById(messages, messageId)
        IN  /\ CanCall(t)
            /\ RoomForReply
            /\ tabs' = Loaded(t, Op("handleReplySubmit", messageId, replyText, notes),
                              [messages EXCEPT
                                  ![i] = counselorReplied(@, replyText, notes)])
            /\ UNCHANGED <<localStorage, AppState, replyFormCode, now, last, generating,
                   everResponded, modules>>

\* handleStudentReply, with a reply text and the record found, up to the
\* status assignment
TabStudentReply(t) ==
    \E typed \in StudentTexts :
        LET replyText == trim(typed)
            messages == getMessages
            messageIndex == findIndexByCode(messages, replyFormCode)
        IN  /\ CanCall(t)
            /\ RoomForReply
            /\ replyFormCode # Null
            /\ replyText # ""
            /\ messageIndex # 0
            /\ tabs' = Loaded(t, Op("handleStudentReply", replyFormCode, replyText, ""),
                              [messages EXCEPT
                                  ![messageIndex] = studentReplied(@, replyText)])
            /\ UNCHANGED <<localStorage, AppState, replyFormCode, now, last, generating,
                   everResponded, modules>>

\* updateMessageStatus up to message.status = newStatus
TabUpdateStatus(t) ==
    \E n \in 1..Len(getMessages), newStatus \in Statuses :
        LET messages == getMessages
            messageId == messages[n].id
            i == findById(messages, messageId)
        IN  /\ CanCall(t)
            /\ tabs' = Loaded(t, Op("updateMessageStatus", messageId, "", newStatus),
                              [messages EXCEPT ![i].status = newStatus])
            /\ UNCHANGED <<localStorage, AppState, replyFormCode, now, last, generating,
                   everResponded, modules>>

\* the change of page t, were it made again on the collection as it is when
\* the page saves
messagesToSaveMerged(t) ==
    LET op == tabs[t].op
        current == getMessages
        byId == findById(current, op.key)
        byCode == findIndexByCode(current, op.key)
    IN  CASE op.kind = "addMessage" -> <<tabs[t].messages[1]>> \o current
          [] op.kind = "handleReplySubmit" /\ byId # 0 ->
                [current EXCEPT ![byId] = counselorReplied(@, op.text, op.extra)]
          [] op.kind = "handleStudentReply" /\ byCode # 0 ->
                [current EXCEPT ![byCode] = studentReplied(@, op.text)]
          [] op.kind = "updateMessageStatus" /\ byId # 0 ->
                [current EXCEPT ![byId].status = op.extra]
          [] OTHER -> current

\* the array a handler passes to saveMessages: the one it read and changed
messagesToSave(t) == tabs[t].messages

\* saveMessages(messages) of the handler running in page t; a page that has
\* read and not yet saved is overtaken
TabSave(t) ==
    /\ tabs[t].pc = "loaded"
    /\ localStorage' = savedStorage(messagesToSave(t))
    /\ tabs' = [u \in Tabs |->
                  IF u = t THEN IdleTab(messagesToSave(t), tabs[t].calls)
                  ELSE IF tabs[u].pc = "loaded"
                  THEN [tabs[u] EXCEPT !.overtaken = tabs[t].op]
                  ELSE tabs[u]]
    /\ last' = Last(tabs[t].op.kind, tabs[t].op.key, tabs[t].op.text,
                    tabs[t].op.extra, NoAnalysis)
    /\ everResponded' = Remembered
    /\ UNCHANGED <<AppState, replyFormCode, now, generating, modules>>

NextTabs ==
    \/ \E t \in Tabs : TabAddMessage(t)
    \/ \E t \in Tabs : TabReplySubmit(t)
    \/ \E t \in Tabs : TabStudentReply(t)
    \/ \E t \in Tabs : TabUpdateStatus(t)
    \/ \E t \in Tabs : TabSave(t)
    \/ TrackMessage

SpecTabs == Init /\ [][NextTabs]_vars

\* ------------------------------------------------------------------------
\* The classifier specification: the first submission of a run, over every
\* text of Texts and every declared urgency
\* ------------------------------------------------------------------------
SubmitFirst ==
    /\ getMessages = <<>>
    /\ \E draws \in DrawSeqs, text \in Texts, urgency \in Urgencies :
        /\ EndsAtLast(draws)
        /\ handleMessageSubmit([category |-> "otro", urgency |-> urgency,
                                message |-> text], "triste", draws)
        /\ everResponded' = Remembered
        /\ UNCHANGED <<replyFormCode, now, generating, tabs, modules>>

NextClassifier == SubmitFirst

SpecClassifier == Init /\ [][NextClassifier]_vars

\* ------------------------------------------------------------------------
\* Properties
\* ------------------------------------------------------------------------
\* ordinal scale baja < media < alta < urgente
Rank(urgency) ==
    CASE urgency = "baja" -> 1
      [] urgency = "media" -> 2
      [] urgency = "alta" -> 3
      [] urgency = "urgente" -> 4

\* the last handler call was a submission that created a record; that record
\* is the first of the collection, last.extra is the declared urgency,
\* last.text the body text and last.analysis the classifier result
Created == last.op = "handleMessageSubmit" /\ last.key # ""
Stored == getMessages[1]

\* C1: the urgency stored for a new record is never lower than the urgency
\* the submitter declared (escalation never downgrades)
C1_NeverDowngrades ==
    Created => Rank(Stored.urgency) >= Rank(last.extra)

\* C2: the stored urgency is strictly lower than the declared one exactly
\* for declared = urgente with level = high, where it is alta; in the 15
\* other pairs of declared urgency and level it is greater or equal
C2_OnlyHighLowersUrgente ==
    Created =>
        /\ Rank(Stored.urgency) < Rank(last.extra)
              <=> (last.extra = "urgente" /\ last.analysis.crisisLevel = "high")
        /\ (last.extra = "urgente" /\ last.analysis.crisisLevel = "high")
              => Stored.urgency = "alta"

C2_Witness ==
    /\ Created
    /\ last.extra = "urgente"
    /\ last.analysis.crisisLevel = "high"
    /\ Stored.urgency = "alta"

\* C3: the policy table, first match winning: critical gives urgente, else
\* high gives alta, else moderate with declared baja gives media, else the
\* declared urgency is returned unchanged
C3_PolicyTable ==
    Created =>
        LET level == last.analysis.crisisLevel
            declared == last.extra
        IN  /\ level = "critical" => Stored.urgency = "urgente"
            /\ level = "high" => Stored.urgency = "alta"
            /\ (level = "moderate" /\ declared = "baja") => Stored.urgency = "media"
            /\ (level = "moderate" /\ declared # "baja") => Stored.urgency = declared
            /\ level = "none" => Stored.urgency = declared
            /\ level \in Levels

C3_Witness ==
    /\ Created
    /\ last.analysis.crisisLevel = "moderate"
    /\ last.extra = "baja"
    /\ Stored.urgency = "media"

\* the level the thresholds give to a score
LevelOfScore(score) ==
    CASE score >= 10 -> "critical"
      [] score >= 7 /\ score < 10 -> "high"
      [] score >= 5 /\ score < 7 -> "moderate"
      [] score < 5 -> "none"

\* C4: the crisis level is a function of the score alone (>= 10 critical,
\* 7..9 high, 5..6 moderate, below 5 none) and isCrisis holds exactly when
\* the level is not none; checked on every analysis made and on the
\* threshold chain for every score from 0 to 20
C4_LevelFromScore ==
    /\ Created =>
          /\ last.analysis.crisisLevel = LevelOfScore(last.analysis.severityScore)
          /\ last.analysis.isCrisis <=> last.analysis.crisisLevel # "none"
          /\ Stored.crisisLevel = last.analysis.crisisLevel
          /\ Stored.crisisDetected = last.analysis.isCrisis
    /\ \A score \in 0..20 :
          /\ determineLevel(score).crisisLevel = LevelOfScore(score)
          /\ determineLevel(score).isCrisis <=> LevelOfScore(score) # "none"

C4_Witness ==
    /\ Created
    /\ last.analysis.severityScore = 7
    /\ last.analysis.crisisLevel = "high"
    /\ last.analysis.isCrisis

\* a text as the sequence of its characters, letter case folded
Folded(text) == [i \in 1..Len(text) |-> toLowerChar(SubSeq(text, i, i))]

\* the folded keyword w occurs in the folded text t at some position
OccursIn(t, w) ==
    \E i \in 1..(Len(t) - Len(w) + 1) :
        \A k \in 1..Len(w) : t[i + k - 1] = w[k]

\* number of keywords of a category that occur in the folded text t
Matches(t, category) ==
    Cardinality({i \in 1..Len(keywords[category]) :
                    OccursIn(t, Folded(keywords[category][i]))})

\* C5: severityScore is the sum, over the keywords of the table occurring in
\* the text as case-insensitive substrings, of the weight of the keyword's
\* category (suicide 10, selfHarm 8, violence 9, death 7, severe 5)
C5_ScoreIsWeightedSum ==
    Created =>
        LET t == Folded(last.text)
        IN  last.analysis.severityScore =
                  10 * Matches(t, "suicide")
                + 8 * Matches(t, "selfHarm")
                + 9 * Matches(t, "violence")
                + 7 * Matches(t, "death")
                + 5 * Matches(t, "severe")

\* two keywords of one category, one of them in capitals, twice the weight
C5_Witness ==
    /\ Created
    /\ last.text = "desesperado Horrible"
    /\ last.analysis.severityScore = 10

\* C6 as stated: the example text matches exactly desesperado and matarme,
\* score 15, critical, and declared baja is stored as urgente
C6_ExampleAsStated ==
    (Created /\ last.text = ExampleText) =>
        /\ {last.analysis.detectedKeywords[i] :
               i \in 1..Len(last.analysis.detectedKeywords)}
              = {"desesperado", "matarme"}
        /\ last.analysis.severityScore = 15
        /\ last.analysis.crisisLevel = "critical"
        /\ last.analysis.isCrisis
        /\ last.extra = "baja" => Stored.urgency = "urgente"

\* C6 amended: the example text matches matarme (suicide), matar (violence,
\* inside matarme) and desesperado (severe): score 24, critical, isCrisis,
\* and declared baja is stored as urgente
C6_ExampleAmended ==
    (Created /\ last.text = ExampleText) =>
        /\ last.analysis.detectedKeywords = <<"matarme", "matar", "desesperado">>
        /\ last.analysis.severityScore = 24
        /\ last.analysis.crisisLevel = "critical"
        /\ last.analysis.isCrisis
        /\ Stored.crisisKeywords = <<"matarme", "matar", "desesperado">>
        /\ last.extra = "baja" => Stored.urgency = "urgente"

C6_Witness ==
    /\ Created
    /\ last.text = ExampleText
    /\ last.extra = "baja"
    /\ Stored.urgency = "urgente"
    /\ last.analysis.severityScore = 24

\* ------------------------------------------------------------------------
\* Properties of the record lifecycle (specification Spec)
\* ------------------------------------------------------------------------
\* C7: no two records of the stored collection have the same trackingCode
C7_UniqueTrackingCodes ==
    \A i, j \in 1..Len(getMessages) :
        getMessages[i].trackingCode = getMessages[j].trackingCode => i = j

\* a second record was created beside the first, with another code
C7_Witness ==
    /\ Created
    /\ Len(getMessages) = 2
    /\ getMessages[1].trackingCode # getMessages[2].trackingCode

\* C8: no two records of the stored collection have the same id, also when
\* two records are created at the same clock reading
C8_UniqueIds ==
    \A i, j \in 1..Len(getMessages) :
        getMessages[i].id = getMessages[j].id => i = j

\* this step is a call of handler op: every handler records itself in last
\* and none moves the clock
Ran(op) == last'.op = op /\ now' = now

\* the record a handler call addressed by id, and the records beside it
TargetById == findById(getMessages, last'.key)

OthersUnchanged(i) ==
    /\ Len(getMessages') = Len(getMessages)
    /\ \A j \in 1..Len(getMessages) : j # i => getMessages'[j] = getMessages[j]

\* C9: a counselor reply on an existing record appends exactly one reply from
\* counselor at the end of replies, replaces counselorNotes by the notes
\* supplied, and sets status to responded exactly when it was new or
\* in-review; responded and resolved are kept
C9_CounselorReply ==
    [][(Ran("handleReplySubmit") /\ TargetById # 0) =>
          LET before == getMessages[TargetById]
              after == getMessages'[TargetById]
          IN  /\ after.replies =
                    Append(before.replies,
                           [from |-> "counselor", message |-> last'.text,
                            timestamp |-> now])
              /\ after.counselorNotes = last'.extra
              /\ before.status \in {"new", "in-review"} => after.status = "responded"
              /\ before.status \in {"responded", "resolved"}
                    => after.status = before.status
              /\ after = [before EXCEPT !.replies = after.replies,
                                        !.counselorNotes = after.counselorNotes,
                                        !.status = after.status]
              /\ OthersUnchanged(TargetById)]_vars

\* the only record is resolved and the call that just ran was a counselor
\* reply: the reply was made to a resolved record, which stayed resolved
C9_Witness ==
    /\ last.op = "handleReplySubmit"
    /\ Len(getMessages) = 1
    /\ Stored.status = "resolved"
    /\ Len(Stored.replies) >= 1
    /\ Stored.replies[Len(Stored.replies)].from = "counselor"
    /\ Stored.counselorNotes = last.extra

\* the record a student reply addressed by tracking code; last'.extra is the
\* status it had when the handler read it
TargetByCode == findIndexByCode(getMessages, last'.key)

\* C10: a student reply with non-empty text on an existing record appends
\* exactly one reply from student at the end of replies and sets status to
\* responded whatever it was, resolved included; counselorNotes is unchanged
C10_StudentReply ==
    [][(Ran("handleStudentReply") /\ last'.text # "" /\ TargetByCode # 0) =>
          LET before == getMessages[TargetByCode]
              after == getMessages'[TargetByCode]
          IN  /\ after.replies =
                    Append(before.replies,
                           [from |-> "student", message |-> last'.text,
                            timestamp |-> now])
              /\ after.status = "responded"
              /\ after.counselorNotes = before.counselorNotes
              /\ after = [before EXCEPT !.replies = after.replies,
                                        !.status = "responded"]
              /\ OthersUnchanged(TargetByCode)]_vars

\* a student reply has just been made to a record that was resolved
C10_Witness ==
    /\ last.op = "handleStudentReply"
    /\ last.extra = "resolved"
    /\ \E i \in 1..Len(getMessages) :
          /\ getMessages[i].trackingCode = last.key
          /\ getMessages[i].status = "responded"
          /\ getMessages[i].replies[Len(getMessages[i].replies)].from = "student"

\* C11: updateMessageStatus on an existing record sets its status to the
\* status asked for, whatever the current status (no transition is refused),
\* and changes nothing else of the record nor any other record
C11_UpdateStatusFrame ==
    [][(Ran("updateMessageStatus") /\ TargetById # 0) =>
          /\ last'.extra \in Statuses
          /\ getMessages'[TargetById] =
                [getMessages[TargetById] EXCEPT !.status = last'.extra]
          /\ OthersUnchanged(TargetById)]_vars

\* replies set a record to responded at least, so a record with a reply and
\* status new was moved back to new by updateMessageStatus, beside another
\* record
C11_Witness ==
    /\ last.op = "updateMessageStatus"
    /\ last.extra = "new"
    /\ Len(getMessages) = 2
    /\ \E i \in 1..2 :
          /\ i = findById(getMessages, last.key)
          /\ getMessages[i].status = "new"
          /\ Len(getMessages[i].replies) > 0
          /\ getMessages[i].counselorNotes = "seguimiento"

\* a step adds records at the front only: the record at position j is found
\* at position j + Shifted after the step
Shifted == Len(getMessages') - Len(getMessages)

\* C12: replies is append-only: over every step its length never decreases,
\* the replies already present keep their position and their values, and a
\* new reply is placed after all earlier ones
C12_RepliesAppendOnly ==
    [][/\ Shifted >= 0
       /\ \A j \in 1..Len(getMessages) :
             LET before == getMessages[j].replies
                 after == getMessages'[j + Shifted].replies
             IN  /\ Len(after) >= Len(before)
                 /\ Len(after) <= Len(before) + 1
                 /\ \A k \in 1..Len(before) : after[k] = before[k]]_vars

\* R1 from the student, then R2 from the counselor, stored in that order
C12_Witness ==
    /\ last.op = "handleReplySubmit"
    /\ \E i \in 1..Len(getMessages) :
          /\ Len(getMessages[i].replies) = 2
          /\ getMessages[i].replies[1].from = "student"
          /\ getMessages[i].replies[1].message = "gracias"
          /\ getMessages[i].replies[2].from = "counselor"
          /\ getMessages[i].replies[2].message = "te escucho"

\* the fields of a record set at creation
CreationFields(m) ==
    <<m.id, m.trackingCode, m.category, m.urgency, m.mood, m.message,
      m.timestamp, m.crisisDetected, m.crisisLevel, m.crisisKeywords>>

\* C13: no step (counselor reply, student reply, status update, creation of
\* another record) changes the creation fields of a record: id, trackingCode,
\* category, urgency, mood, message, timestamp and the three crisis fields
C13_CreationFieldsFrozen ==
    [][/\ Shifted >= 0
       /\ \A j \in 1..Len(getMessages) :
             CreationFields(getMessages'[j + Shifted])
                = CreationFields(getMessages[j])]_vars

\* the older of two records has been replied to by the counselor, whose text
\* holds no keyword, and still carries the classification of its own text
C13_Witness ==
    /\ Len(getMessages) = 2
    /\ Len(getMessages[2].replies) > 0
    /\ getMessages[2].replies[1].from = "counselor"
    /\ getMessages[2].status = "resolved"
    /\ getMessages[2].crisisLevel = "high"
    /\ getMessages[2].crisisDetected
    /\ getMessages[2].urgency = "alta"

\* the urgency the policy table gives a declared urgency and a level
PolicyTable(declared, level) ==
    CASE level = "critical" -> "urgente"
      [] level = "high" -> "alta"
      [] level = "moderate" /\ declared = "baja" -> "media"
      [] OTHER -> declared

\* the score of a text, counted keyword by keyword on the folded text
WeightedSum(text) ==
    LET t == Folded(text)
    IN    10 * Matches(t, "suicide") + 8 * Matches(t, "selfHarm")
        + 9 * Matches(t, "violence") + 7 * Matches(t, "death")
        + 5 * Matches(t, "severe")

\* C14: addMessage persists exactly one new record, with status new, no
\* replies and empty notes, whose crisis fields are those of the analysis of
\* its text and whose urgency is the declared urgency adjusted by that
\* analysis; the records that existed before are unchanged
C14_AddMessage ==
    [][(Ran("handleMessageSubmit") /\ last'.key # "") =>
          LET new == getMessages'[1]
              level == LevelOfScore(WeightedSum(last'.text))
          IN  /\ Len(getMessages') = Len(getMessages) + 1
              /\ \A j \in 1..Len(getMessages) : getMessages'[j + 1] = getMessages[j]
              /\ new.status = "new"
              /\ new.replies = <<>>
              /\ new.counselorNotes = ""
              /\ new.message = last'.text
              /\ new.trackingCode = last'.key
              /\ new.crisisLevel = level
              /\ new.crisisDetected <=> level # "none"
              /\ new.crisisKeywords = last'.analysis.detectedKeywords
              /\ \A k \in 1..Len(new.crisisKeywords) :
                    OccursIn(Folded(last'.text), Folded(new.crisisKeywords[k]))
              /\ Len(new.crisisKeywords) =
                      Matches(Folded(last'.text), "suicide")
                    + Matches(Folded(last'.text), "selfHarm")
                    + Matches(Folded(last'.text), "violence")
                    + Matches(Folded(last'.text), "death")
                    + Matches(Folded(last'.text), "severe")
              /\ new.urgency = PolicyTable(last'.extra, level)]_vars

\* a second record has just been stored as new, classified high and with
\* urgency alta, in front of a record that has a reply
C14_Witness ==
    /\ Created
    /\ Len(getMessages) = 2
    /\ Stored.status = "new"
    /\ Stored.replies = <<>>
    /\ Stored.crisisLevel = "high"
    /\ Stored.urgency = "alta"
    /\ Len(getMessages[2].replies) > 0

\* C15: a submission in which the mood or another required field (category,
\* urgency, body text) is missing is rejected before a record is created: no
\* record is stored and no tracking code is issued, so every record stored
\* has a mood, a category, a declared urgency and a body text
C15_MissingFieldRejected ==
    /\ (last.op = "handleMessageSubmit" /\ last.text = "")
          => (last.key = "" /\ getMessages = <<>>)
    /\ \A i \in 1..Len(getMessages) :
          /\ getMessages[i].mood \notin {Null, ""}
          /\ getMessages[i].category # ""
          /\ getMessages[i].urgency # ""
          /\ getMessages[i].message # ""

\* capital letters and digits without I, O, 0 and 1
CodeAlphabet ==
    {"A", "B", "C", "D", "E", "F", "G", "H", "J", "K", "L", "M", "N", "P",
     "Q", "R", "S", "T", "U", "V", "W", "X", "Y", "Z",
     "2", "3", "4", "5", "6", "7", "8", "9"}

\* C18: every stored tracking code has exactly 8 characters, each of them a
\* capital letter or digit other than I, O, 0 and 1; no character the
\* generator can draw is outside that alphabet
C18_CodeShape ==
    /\ \A i \in 1..Len(getMessages) :
          LET code == getMessages[i].trackingCode
          IN  /\ Len(code) = 8
              /\ \A k \in 1..8 : SubSeq(code, k, k) \in CodeAlphabet
    /\ \A n \in 0..(Len(chars) - 1) : charAt(chars, n) \in CodeAlphabet

\* both codes of the model are stored, one of letters and one of digits
C18_Witness ==
    /\ Len(getMessages) = 2
    /\ {getMessages[1].trackingCode, getMessages[2].trackingCode}
          = {"ABCDEFGH", "98765432"}

\* C20 as stated: each of counselor reply, student reply and status update
\* moves a resolved record out of resolved
C20_ResolvedReopenedByAll ==
    [][/\ (Ran("handleReplySubmit") /\ TargetById # 0) =>
             (getMessages[TargetById].status = "resolved"
                 => getMessages'[TargetById].status # "resolved")
       /\ (Ran("handleStudentReply") /\ last'.text # "" /\ TargetByCode # 0) =>
             (getMessages[TargetByCode].status = "resolved"
                 => getMessages'[TargetByCode].status # "resolved")
       /\ (Ran("updateMessageStatus") /\ TargetById # 0
              /\ last'.extra # "resolved") =>
             (getMessages[TargetById].status = "resolved"
                 => getMessages'[TargetById].status # "resolved")]_vars

\* C20 amended: a student reply and a status update to another status move a
\* resolved record out of resolved; a counselor reply leaves it resolved
C20_ResolvedReopenedByTwo ==
    [][/\ (Ran("handleReplySubmit") /\ TargetById # 0) =>
             (getMessages[TargetById].status = "resolved"
                 => getMessages'[TargetById].status = "resolved")
       /\ (Ran("handleStudentReply") /\ last'.text # "" /\ TargetByCode # 0) =>
             (getMessages[TargetByCode].status = "resolved"
                 => getMessages'[TargetByCode].status = "responded")
       /\ (Ran("updateMessageStatus") /\ TargetById # 0
              /\ last'.extra # "resolved") =>
             (getMessages[TargetById].status = "resolved"
                 => getMessages'[TargetById].status = last'.extra)]_vars

\* the counselor replied, the record was set to resolved, and the student's
\* reply has just reopened it
C20_Witness ==
    /\ last.op = "handleStudentReply"
    /\ last.extra = "resolved"
    /\ \E i \in 1..Len(getMessages) :
          /\ getMessages[i].trackingCode = last.key
          /\ Len(getMessages[i].replies) = 2
          /\ getMessages[i].replies[1].from = "counselor"
          /\ getMessages[i].replies[2].from = "student"
          /\ getMessages[i].status = "responded"

\* ------------------------------------------------------------------------
\* Properties of lookups (specification SpecLookup)
\* ------------------------------------------------------------------------
\* the typed code names the stored code, letter case apart
SameCode(typed, trackingCode) == Folded(typed) = Folded(trackingCode)

\* C16: a lookup by a code that matches no stored record gives the absent
\* result (and one that matches gives that record); neither a lookup nor a
\* student reply addressed to a code no record has changes the collection
C16_LookupMiss ==
    [][/\ Ran("handleTrackMessage") =>
             /\ localStorage' = localStorage
             /\ last'.extra \in {"empty", "not found", "found"}
             /\ last'.extra = "empty" <=> last'.text = ""
             /\ last'.extra = "not found" <=>
                    /\ last'.text # ""
                    /\ \A i \in 1..Len(getMessages) :
                          ~SameCode(last'.text, getMessages[i].trackingCode)
             /\ last'.extra = "found" =>
                    \E i \in 1..Len(getMessages) :
                        /\ getMessages[i].trackingCode = last'.key
                        /\ SameCode(last'.text, last'.key)
             /\ last'.extra = "not found" => replyFormCode' = Null
       /\ (/\ Ran("handleStudentReply")
           /\ \A i \in 1..Len(getMessages) :
                 getMessages[i].trackingCode # last'.key) =>
             /\ localStorage' = localStorage
             /\ last'.extra \in {"empty", "not found"}]_vars

\* a student reply was addressed to a code no record has any more while
\* another record is stored, which the reply left alone
C16_Witness ==
    /\ last.op = "handleStudentReply"
    /\ last.extra = "not found"
    /\ last.text = "gracias"
    /\ Len(getMessages) = 1
    /\ Stored.trackingCode # last.key
    /\ Stored.replies = <<>>

\* a lookup by a code no record has, with a record stored
C16_WitnessLookup ==
    /\ last.op = "handleTrackMessage"
    /\ last.extra = "not found"
    /\ last.text = "NOEXISTE"
    /\ Len(getMessages) >= 1

\* ------------------------------------------------------------------------
\* Properties of the generator (specification SpecGenerate)
\* ------------------------------------------------------------------------
\* C17: generateTrackingCode calls itself again on a collision and, whenever
\* some code of the code space is free, eventually returns (fair random
\* choice); the code it returns is used by no stored record
C17_GenerateTerminates ==
    /\ [](generating.pc = "returned" =>
             \A i \in 1..Len(getMessages) :
                 getMessages[i].trackingCode # generating.code)
    /\ (generating.pc = "drawing" /\ FreeCode) ~> (generating.pc = "returned")

\* a code has been returned after at least one collision with the stored
\* record
C17_Witness ==
    /\ generating.pc = "returned"
    /\ generating.collisions >= 1
    /\ Len(getMessages) = 1
    /\ Stored.trackingCode # generating.code

\* ------------------------------------------------------------------------
\* Properties of two pages (specification SpecTabs)
\* ------------------------------------------------------------------------
\* the record of the collection a page read that its call changes, 0 for a
\* submission
TargetIn(base, op) ==
    CASE op.kind = "handleStudentReply" -> findIndexByCode(base, op.key)
      [] op.kind \in {"handleReplySubmit", "updateMessageStatus"} ->
            findById(base, op.key)
      [] OTHER -> 0

\* C19: a handler reads the whole collection, changes its copy and writes
\* the whole copy, with no merge: when a page saves after another page has
\* saved since it read, the collection stored is the one it read with its
\* own change alone, so what the first writer saved in between (a new
\* record, a reply, a status change) is no longer stored
C19_LastWriterWins ==
    [][\A t \in Tabs :
          (/\ tabs[t].pc = "loaded"
           /\ tabs'[t].pc = "idle"
           /\ tabs[t].overtaken.kind # "") =>
             LET base == tabs[t].base
                 op == tabs[t].op
                 added == IF op.kind = "addMessage" THEN 1 ELSE 0
                 replied == IF op.kind \in {"handleReplySubmit",
                                            "handleStudentReply"} THEN 1 ELSE 0
                 target == TargetIn(base, op)
             IN  /\ Len(getMessages') = Len(base) + added
                 /\ totalReplies(getMessages') = totalReplies(base) + replied
                 /\ \A j \in 1..Len(base) :
                       LET before == base[j]
                           after == getMessages'[j + added]
                       IN  /\ j # target => after = before
                           /\ CreationFields(after) = CreationFields(before)
                           /\ op.kind # "handleReplySubmit" =>
                                 after.counselorNotes = before.counselorNotes
                           /\ op.kind = "addMessage" => after = before
                           /\ (op.kind = "updateMessageStatus" /\ j = target) =>
                                 after.status = op.extra]_vars

\* the counselor's page saved its reply and holds it in AppState.messages;
\* the student's page, which had read before, has just saved its own reply,
\* and the record stored has the student's reply alone
C19_Witness ==
    /\ last.op = "handleStudentReply"
    /\ \E u \in Tabs, i \in 1..Len(getMessages) :
          /\ tabs[u].pc = "idle"
          /\ Len(tabs[u].messages) = Len(getMessages)
          /\ getMessages[i].trackingCode = last.key
          /\ Len(getMessages[i].replies) = 1
          /\ getMessages[i].replies[1].from = "student"
          /\ Len(tabs[u].messages[i].replies) = 1
          /\ tabs[u].messages[i].replies[1].from = "counselor"

\* ------------------------------------------------------------------------
\* The stored item as text (app.js getMessages / saveMessages): what
\* JSON.stringify writes for a collection of records and what JSON.parse
\* reads back from it
\* ------------------------------------------------------------------------
MaxStored == 2      \* records in a collection saved as one item

\* a character of a string literal, were the quotation mark written as it is
escapeCharBackslashOnly(c) == IF c = "\\" THEN "\\\\" ELSE c

\* JSON.stringify of a string: quotation mark and reverse solidus escaped
escapeChar(c) ==
    IF c = "\"" THEN "\\\"" ELSE IF c = "\\" THEN "\\\\" ELSE c

RECURSIVE escapeString(_)
escapeString(s) ==
    IF Len(s) = 0 THEN ""
    ELSE escapeChar(SubSeq(s, 1, 1)) \o escapeString(SubSeq(s, 2, Len(s)))

quote(s) == "\"" \o escapeString(s) \o "\""

stringifyBoolean(b) == IF b THEN "true" ELSE "false"

\* null for a value that is null, the quoted string otherwise
stringifyNullable(s) == IF s = Null THEN "null" ELSE quote(s)

RECURSIVE joinItems(_)
joinItems(items) ==
    IF items = <<>> THEN ""
    ELSE IF Len(items) = 1 THEN items[1]
    ELSE items[1] \o "," \o joinItems(Tail(items))

stringifyArray(items) == "[" \o joinItems(items) \o "]"

stringifyStrings(strings) ==
    stringifyArray([i \in 1..Len(strings) |-> quote(strings[i])])

\* a member of an object: the quoted key, a colon, the value's text
member(key, valueText) == quote(key) \o ":" \o valueText

stringifyObject(members) == "{" \o joinItems(members) \o "}"

\* a reply, its keys in the order the handlers write them
stringifyReply(reply) ==
    stringifyObject(<<member("from", quote(reply.from)),
                      member("message", quote(reply.message)),
                      member("timestamp", quote(reply.timestamp))>>)

\* a record, its keys in the order addMessage writes them
stringifyMessage(m) ==
    stringifyObject(<<
        member("id", quote(m.id)),
        member("trackingCode", quote(m.trackingCode)),
        member("category", quote(m.category)),
        member("urgency", quote(m.urgency)),
        member("message", quote(m.message)),
        member("mood", stringifyNullable(m.mood)),
        member("timestamp", quote(m.timestamp)),
        member("status", quote(m.status)),
        member("crisisDetected", stringifyBoolean(m.crisisDetected)),
        member("crisisLevel", quote(m.crisisLevel)),
        member("crisisKeywords", stringifyStrings(m.crisisKeywords)),
        member("replies",
               stringifyArray([i \in 1..Len(m.replies) |->
                                  stringifyReply(m.replies[i])])),
        member("counselorNotes", quote(m.counselorNotes))>>)

JSONstringify(messages) ==
    stringifyArray([i \in 1..Len(messages) |-> stringifyMessage(messages[i])])

\* JSON.parse, by the grammar: a result is [ok, value, next], next being the
\* position after the value read; ok is FALSE where JSON.parse throws
parseFailed(i) == [ok |-> FALSE, value |-> "SyntaxError", next |-> i]
parsed(value, i) == [ok |-> TRUE, value |-> value, next |-> i]

at(text, i) == IF i <= Len(text) THEN SubSeq(text, i, i) ELSE ""
startsWith(text, i, word) ==
    /\ i + Len(word) - 1 <= Len(text)
    /\ SubSeq(text, i, i + Len(word) - 1) = word

\* the characters of a string literal from position i up to its closing
\* quotation mark
RECURSIVE parseChars(_, _, _)
parseChars(text, i, acc) ==
    LET c == at(text, i)
        d == at(text, i + 1)
    IN  IF c = "" THEN parseFailed(i)
        ELSE IF c = "\"" THEN parsed(acc, i + 1)
        ELSE IF c = "\\"
        THEN IF d \in {"\"", "\\", "/"} THEN parseChars(text, i + 2, acc \o d)
             ELSE parseFailed(i)
        ELSE parseChars(text, i + 1, acc \o c)

RECURSIVE parseValue(_, _)
RECURSIVE parseElements(_, _, _)
RECURSIVE parseMembers(_, _, _)

parseValue(text, i) ==
    LET c == at(text, i)
    IN  IF c = "\"" THEN parseChars(text, i + 1, "")
        ELSE IF c = "[" THEN
            IF at(text, i + 1) = "]" THEN parsed(<<>>, i + 2)
            ELSE parseElements(text, i + 1, <<>>)
        ELSE IF c = "{" THEN
            IF at(text, i + 1) = "}" THEN parsed(<<>>, i + 2)
            ELSE parseMembers(text, i + 1, <<>>)
        ELSE IF startsWith(text, i, "true") THEN parsed(TRUE, i + 4)
        ELSE IF startsWith(text, i, "false") THEN parsed(FALSE, i + 5)
        ELSE IF startsWith(text, i, "null") THEN parsed(Null, i + 4)
        ELSE parseFailed(i)

\* the elements of an array from position i, acc holding those read so far
parseElements(text, i, acc) ==
    LET element == parseValue(text, i)
        c == at(text, element.next)
    IN  IF ~element.ok THEN parseFailed(i)
        ELSE IF c = "," THEN
            parseElements(text, element.next + 1, Append(acc, element.value))
        ELSE IF c = "]" THEN
            parsed(Append(acc, element.value), element.next + 1)
        ELSE parseFailed(element.next)

\* the members of an object from position i; a key read again replaces the
\* value read before
parseMembers(text, i, acc) ==
    LET key == IF at(text, i) = "\"" THEN parseChars(text, i + 1, "")
               ELSE parseFailed(i)
        value == IF key.ok /\ at(text, key.next) = ":"
                 THEN parseValue(text, key.next + 1)
                 ELSE parseFailed(i)
        c == at(text, value.next)
        members == (key.value :> value.value) @@ acc
    IN  IF ~value.ok THEN parseFailed(i)
        ELSE IF c = "," THEN parseMembers(text, value.next + 1, members)
        ELSE IF c = "}" THEN parsed(members, value.next + 1)
        ELSE parseFailed(value.next)

\* the text must be one value and nothing more
JSONparse(text) ==
    LET result == parseValue(text, 1)
    IN  IF result.ok /\ result.next = Len(text) + 1 THEN result
        ELSE parseFailed(result.next)

\* the text toISOString writes for an instant
isoText(t) == "2025-12-08T18:41:4" \o ToString(t) \o ".000Z"

\* records as the handlers leave them: a record just created, and records
\* that differ from it by a text, by keywords, by replies or by notes
plainRecord ==
    [id |-> "0", trackingCode |-> "ABCDEFGH", category |-> "bullying",
     urgency |-> "media", message |-> "hola", mood |-> "triste",
     timestamp |-> isoText(0), status |-> "new", crisisDetected |-> FALSE,
     crisisLevel |-> "none", crisisKeywords |-> <<>>, replies |-> <<>>,
     counselorNotes |-> ""]

counselorReplyText ==
    [from |-> "counselor", message |-> "te escucho", timestamp |-> isoText(1)]
studentReplyText ==
    [from |-> "student", message |-> "dije \"gracias\"", timestamp |-> isoText(2)]

WellFormedRecords ==
    {plainRecord,
     [plainRecord EXCEPT !.message = "me dijo \"no vales\""],
     [plainRecord EXCEPT !.message = "a\\b,[x]:{y}"],
     [plainRecord EXCEPT !.message = "null", !.category = ""],
     [plainRecord EXCEPT !.id = "1", !.trackingCode = "98765432",
                         !.message = "quiero morir", !.urgency = "alta",
                         !.crisisDetected = TRUE, !.crisisLevel = "high",
                         !.crisisKeywords = <<"morir">>],
     [plainRecord EXCEPT !.message = "sin salida, quiero morir",
                         !.urgency = "urgente", !.crisisDetected = TRUE,
                         !.crisisLevel = "critical",
                         !.crisisKeywords = <<"sin salida", "morir">>],
     [plainRecord EXCEPT !.status = "responded",
                         !.replies = <<counselorReplyText>>,
                         !.counselorNotes = "seguimiento"],
     [plainRecord EXCEPT !.status = "responded",
                         !.replies = <<counselorReplyText, studentReplyText>>],
     [plainRecord EXCEPT !.status = "in-review",
                         !.counselorNotes = "llamar a \"casa\""],
     [plainRecord EXCEPT !.status = "resolved", !.mood = "feliz",
                         !.replies = <<studentReplyText>>]}

Collections == UNION {[1..n -> WellFormedRecords] : n \in 0..MaxStored}

\* saveMessages(messages) followed by getMessages(): the item written, and
\* what is read back from it
saveMessagesAsText(messages) ==
    LET item == JSONstringify(messages)
        read == JSONparse(item)
    IN  /\ localStorage' = [present |-> TRUE,
                            data |-> IF read.ok THEN read.value ELSE <<>>]
        /\ AppState' = savedAppState(messages)
        /\ last' = Last("saveMessages",
                        IF read.ok THEN "" ELSE "SyntaxError", item, "",
                        NoAnalysis)

\* the first save of a run, over every collection of Collections
SaveFirst ==
    /\ ~localStorage.present
    /\ \E messages \in Collections : saveMessagesAsText(messages)
    /\ UNCHANGED <<replyFormCode, now, generating, tabs, everResponded, modules>>

NextStore == SaveFirst

SpecStore == Init /\ [][NextStore]_vars

\* C21: after saveMessages(records), getMessages() reads back a collection
\* equal to records field for field and in the same order: replies that were
\* empty are an empty sequence, counselorNotes that were empty are the empty
\* string, crisisKeywords are the same sequence of strings
C21_RoundTrip ==
    last.op = "saveMessages" =>
        /\ last.key = ""
        /\ Len(getMessages) = Len(AppState.messages)
        /\ \A i \in 1..Len(AppState.messages) :
            LET saved == AppState.messages[i]
                read == getMessages[i]
            IN  /\ DOMAIN read = DOMAIN saved
                /\ \A field \in DOMAIN saved : read[field] = saved[field]
                /\ saved.replies = <<>> => Len(read.replies) = 0
                /\ saved.counselorNotes = "" => Len(read.counselorNotes) = 0
                /\ Len(read.crisisKeywords) = Len(saved.crisisKeywords)
                /\ \A k \in 1..Len(saved.crisisKeywords) :
                      read.crisisKeywords[k] = saved.crisisKeywords[k]

\* two records saved, the first with a quotation mark in a reply and the
\* second with two keywords, are read back
C21_Witness ==
    /\ last.op = "saveMessages"
    /\ Len(getMessages) = 2
    /\ Len(getMessages[1].replies) = 2
    /\ getMessages[1].replies[2].message = "dije \"gracias\""
    /\ getMessages[2].crisisKeywords = <<"sin salida", "morir">>
    /\ getMessages[2].counselorNotes = ""

\* ------------------------------------------------------------------------
\* Order of the stored collection (specification Spec)
\* ------------------------------------------------------------------------
\* C23: the collection is ordered most recent first: a submission that
\* creates a record puts it at the front, no other step changes the number
\* of records, no step changes the relative order of the records already
\* stored, and after every step the records are in reverse order of creation
C23_NewestFirst ==
    [][/\ Shifted \in {0, 1}
       /\ Shifted = 1 <=> (Ran("handleMessageSubmit") /\ last'.key # "")
       /\ Shifted = 1 =>
             /\ getMessages'[1].trackingCode = last'.key
             /\ getMessages'[1].timestamp = now
             /\ getMessages'[1].replies = <<>>
       /\ \A j \in 1..Len(getMessages) :
             CreationFields(getMessages'[j + Shifted])
                = CreationFields(getMessages[j])
       /\ \A i, j \in 1..Len(getMessages') :
             i < j => getMessages'[i].timestamp >= getMessages'[j].timestamp]_vars

\* the older of two records was replied to by the counselor after the newer
\* one was created, and is still the second of the collection
C23_Witness ==
    /\ last.op = "handleReplySubmit"
    /\ Len(getMessages) = 2
    /\ getMessages[1].timestamp = 1
    /\ getMessages[2].timestamp = 0
    /\ getMessages[1].replies = <<>>
    /\ Len(getMessages[2].replies) = 1
    /\ getMessages[2].replies[1].timestamp = 1
    /\ findById(getMessages, last.key) = 2

\* ------------------------------------------------------------------------
\* Categories and recommendation of an analysis (specification
\* SpecClassifier)
\* ------------------------------------------------------------------------
\* C24: the categories returned by analyze hold no category twice and are
\* exactly the categories with at least one keyword occurring in the text,
\* and the recommendation is the one fixed string of the level returned
C24_CategoriesAndRecommendation ==
    Created =>
        LET cats == last.analysis.categories
            level == last.analysis.crisisLevel
            recommendation == last.analysis.recommendation
        IN  /\ \A i, j \in 1..Len(cats) : cats[i] = cats[j] => i = j
            /\ {cats[i] : i \in 1..Len(cats)}
                  = {c \in DOMAIN keywords : Matches(Folded(last.text), c) > 0}
            /\ level \in Levels
            /\ level = "critical" => recommendation =
                  "ACCIÓN INMEDIATA REQUERIDA: Contactar al estudiante de inmediato. Considerar intervención de emergencia."
            /\ level = "high" => recommendation =
                  "ALTA PRIORIDAD: Responder dentro de las próximas 2 horas. Evaluar necesidad de intervención."
            /\ level = "moderate" => recommendation =
                  "PRIORIDAD MEDIA: Responder dentro del mismo día. Monitorear de cerca."
            /\ level = "none" => recommendation =
                  "Seguimiento estándar según protocolo."

\* two keywords of the category severe were detected and the category is
\* listed once
C24_Witness ==
    /\ Created
    /\ last.analysis.detectedKeywords = <<"desesperado", "horrible">>
    /\ last.analysis.categories = <<"severe">>
    /\ last.analysis.crisisLevel = "critical"

\* C25: every stored record's urgency is consistent with its stored crisis
\* level: critical implies urgente, high implies alta, moderate implies an
\* urgency other than baja, and crisisDetected holds exactly when the level
\* is not none
C25_UrgencyMatchesLevel ==
    \A i \in 1..Len(getMessages) :
        LET m == getMessages[i]
        IN  /\ m.crisisLevel = "critical" => m.urgency = "urgente"
            /\ m.crisisLevel = "high" => m.urgency = "alta"
            /\ m.crisisLevel = "moderate" => m.urgency # "baja"
            /\ m.crisisDetected <=> m.crisisLevel # "none"

\* a record declared baja whose text is moderate is stored as media
C25_Witness ==
    /\ Created
    /\ last.extra = "baja"
    /\ Stored.crisisLevel = "moderate"
    /\ Stored.crisisDetected
    /\ Stored.urgency = "media"

ConcatTexts == Fragments \cup {"", "me", " salida", "matar"}

\* analyze(t), analyze(t + u) and analyze(u + t)
AnalyzeExtensions ==
    /\ last.op = "initApp"
    /\ \E t \in ConcatTexts, u \in ConcatTexts :
          last' = Last("analyze", t, u, "",
                       [of |-> analyze(t), after |-> analyze(t \o u),
                        before |-> analyze(u \o t)])
    /\ UNCHANGED <<localStorage, AppState, replyFormCode, now, generating, tabs,
                   everResponded, modules>>

NextConcat == AnalyzeExtensions

SpecConcat == Init /\ [][NextConcat]_vars

\* the scale none < moderate < high < critical
LevelRank(level) ==
    CASE level = "none" -> 0
      [] level = "moderate" -> 1
      [] level = "high" -> 2
      [] level = "critical" -> 3

KeywordSet(analysis) ==
    {analysis.detectedKeywords[i] : i \in 1..Len(analysis.detectedKeywords)}

\* C27: extending a text never lowers its classification: every keyword
\* detected in t is detected in t + u and in u + t, whose severityScore and
\* crisis level are at least those of t
C27_ExtensionNeverLowers ==
    last.op = "analyze" =>
        \A extended \in {last.analysis.after, last.analysis.before} :
            /\ KeywordSet(last.analysis.of) \subseteq KeywordSet(extended)
            /\ extended.severityScore >= last.analysis.of.severityScore
            /\ LevelRank(extended.crisisLevel)
                  >= LevelRank(last.analysis.of.crisisLevel)

\* muerte alone is high; followed or preceded by cortarme, with nothing in
\* between, both keywords are detected and the level is critical
C27_Witness ==
    /\ last.op = "analyze"
    /\ last.key = "muerte"
    /\ last.text = "cortarme"
    /\ last.analysis.of.crisisLevel = "high"
    /\ last.analysis.after.detectedKeywords = <<"cortarme", "muerte">>
    /\ last.analysis.after.crisisLevel = "critical"
    /\ last.analysis.before.severityScore = 15

\* ------------------------------------------------------------------------
\* Repeated keywords (specification SpecClassifier)
\* ------------------------------------------------------------------------
\* every keyword of the table, and those that occur in a text, letter case
\* folded
AllKeywords ==
    UNION {{keywords[c][i] : i \in 1..Len(keywords[c])} : c \in DOMAIN keywords}

Occurring(text) == {k \in AllKeywords : OccursIn(Folded(text), Folded(k))}

\* C28: each keyword of the table counts at most once in an analysis:
\* detectedKeywords holds no string twice, and for a keyword k that occurs in
\* the text t, analyze(t + " " + k) has the score and the keywords of
\* analyze(t) whenever the junction makes no other keyword occur
C28_KeywordCountsOnce ==
    Created =>
        LET found == last.analysis.detectedKeywords
        IN  /\ \A i, j \in 1..Len(found) : found[i] = found[j] => i = j
            /\ \A k \in Occurring(last.text) :
                  LET repeated == last.text \o " " \o k
                  IN  Occurring(repeated) = Occurring(last.text) =>
                         /\ analyze(repeated).severityScore
                               = last.analysis.severityScore
                         /\ analyze(repeated).detectedKeywords = found

\* the text holds muerte twice and is scored once
C28_Witness ==
    /\ Created
    /\ last.text = "muerte muerte"
    /\ last.analysis.detectedKeywords = <<"muerte">>
    /\ last.analysis.severityScore = 7

\* ------------------------------------------------------------------------
\* GamificationSystem (unnamed/part_001)
\* ------------------------------------------------------------------------
\* points and target of the achievements; those without a target are
\* unlocked by name
achievementPoints(id) ==
    CASE id = "first_voice" -> 10
      [] id = "help_seeker" -> 20
      [] id = "week_streak" -> 50
      [] id = "challenge_master" -> 30
      [] id = "resilient" -> 100
      [] id = "communicator" -> 25
      [] id = "tracker" -> 30

achievementTarget(id) ==
    CASE id = "help_seeker" -> 3
      [] id = "challenge_master" -> 5
      [] id = "communicator" -> 5
      [] id = "tracker" -> 10

\* two of the seven daily challenges; each is worth 5 points
DailyChallenges == {"breathe", "walk"}
challengePoints(challenge) == 5

\* addPoints(points): the level follows the points, 100 to a level
addPoints(g, points) ==
    LET total == g.points + points
        newLevel == (total \div 100) + 1
    IN  [g EXCEPT !.points = total,
                  !.level = IF newLevel > @ THEN newLevel ELSE @]

\* unlockAchievement(achievementId): once, with the achievement's points
unlockAchievement(g, id) ==
    IF ~g.unlocked[id]
    THEN addPoints([g EXCEPT !.unlocked[id] = TRUE], achievementPoints(id))
    ELSE g

\* the progress of a counted achievement goes up by one while it is locked,
\* and the achievement is unlocked at its target
countTowards(g, id) ==
    IF ~g.unlocked[id]
    THEN LET counted == [g EXCEPT !.progress[id] = @ + 1]
         IN  IF counted.progress[id] >= achievementTarget(id)
             THEN unlockAchievement(counted, id)
             ELSE counted
    ELSE g

\* checkDailyStreak(), today being the day read from the clock
checkDailyStreak(g, today) ==
    IF g.lastCheckin = NoDay
    THEN [g EXCEPT !.streak = 1, !.lastCheckin = today]
    ELSE LET diffDays == today - g.lastCheckin
         IN  IF diffDays = 0 THEN g
             ELSE IF diffDays = 1
             THEN LET checked == addPoints([g EXCEPT !.streak = @ + 1,
                                                     !.lastCheckin = today], 5)
                  IN  IF checked.streak >= 7
                      THEN unlockAchievement(checked, "week_streak")
                      ELSE checked
             ELSE [g EXCEPT !.streak = 1, !.lastCheckin = today]

\* assignDailyChallenge(), challenge being the one drawn by Math.random
assignDailyChallenge(g, today, challenge) ==
    IF g.lastChallengeDate # today
    THEN [g EXCEPT !.todayChallenge = challenge,
                   !.challengeCompleted = FALSE,
                   !.lastChallengeDate = today]
    ELSE g

\* completeChallenge()
completeChallenge(g) ==
    IF ~g.challengeCompleted /\ g.todayChallenge # Null
    THEN countTowards(addPoints([g EXCEPT !.challengeCompleted = TRUE],
                                challengePoints(g.todayChallenge)),
                      "challenge_master")
    ELSE g

\* trackMessageSent(): first_voice when there are no points yet, then the
\* communicator count, then 2 points
trackMessageSent(g) ==
    LET first == IF g.points = 0
                 THEN unlockAchievement(g, "first_voice")
                 ELSE g
    IN  addPoints(countTowards(first, "communicator"), 2)

\* trackResourceUsed(): the help_seeker count, then 3 points
trackResourceUsed(g) == addPoints(countTowards(g, "help_seeker"), 3)

\* trackMoodRegistered(): the tracker count, then 1 point
trackMoodRegistered(g) == addPoints(countTowards(g, "tracker"), 1)

\* the frame of the gamification actions
lifecycle == <<localStorage, AppState, replyFormCode, now, last, generating,
               tabs, everResponded>>

latestDay(g) ==
    IF g.lastCheckin > g.lastChallengeDate THEN g.lastCheckin
    ELSE g.lastChallengeDate

\* GamificationSystem.init() when the page is loaded on day today, which is
\* not before the days already recorded: loadProgress reads back what
\* saveProgress wrote, then checkDailyStreak and assignDailyChallenge
GamificationInit ==
    \E today \in 0..MaxDay, challenge \in DailyChallenges :
        /\ today >= latestDay(GamificationSystem)
        /\ GamificationSystem' =
              assignDailyChallenge(checkDailyStreak(GamificationSystem, today),
                                   today, challenge)
        /\ GamificationSystem'.points <= MaxPoints
        /\ UNCHANGED <<lifecycle, AppointmentSystem, notified, hoursNow>>

\* the button of the daily challenge
CompleteChallenge ==
    /\ GamificationSystem' = completeChallenge(GamificationSystem)
    /\ GamificationSystem'.points <= MaxPoints
    /\ UNCHANGED <<lifecycle, AppointmentSystem, notified, hoursNow>>

\* handleMessageSubmit once the record is added: trackMessageSent, then
\* trackMoodRegistered
TrackSubmission ==
    /\ GamificationSystem' =
          trackMoodRegistered(trackMessageSent(GamificationSystem))
    /\ GamificationSystem'.points <= MaxPoints
    /\ UNCHANGED <<lifecycle, AppointmentSystem, notified, hoursNow>>

\* a self-help resource is used
TrackResourceUsed ==
    /\ GamificationSystem' = trackResourceUsed(GamificationSystem)
    /\ GamificationSystem'.points <= MaxPoints
    /\ UNCHANGED <<lifecycle, AppointmentSystem, notified, hoursNow>>

NextGamification ==
    \/ GamificationInit
    \/ CompleteChallenge
    \/ TrackSubmission
    \/ TrackResourceUsed

SpecGamification == Init /\ [][NextGamification]_vars

\* trackMessageSent has been called: each call adds one to the progress of
\* communicator until communicator is unlocked
MessageTracked ==
    \/ GamificationSystem.progress["communicator"] > 0
    \/ GamificationSystem.unlocked["communicator"]

\* C29: once trackMessageSent has been called, the achievement first_voice
\* ('Enviaste tu primer mensaje') is unlocked
C29_FirstVoiceUnlocked ==
    MessageTracked => GamificationSystem.unlocked["first_voice"]

\* ------------------------------------------------------------------------
\* AppointmentSystem (unnamed/part_003)
\* ------------------------------------------------------------------------
\* date and time of an appointment are kept as the instant they denote, in
\* hours on the wall clock
AppointmentDates == {24, 25}
AppointmentStatuses == {"pending", "confirmed", "cancelled"}

gamificationAndLifecycle ==
    <<localStorage, AppState, replyFormCode, last, generating, tabs,
      everResponded, GamificationSystem>>

\* the wall clock advances by an hour
AdvanceHour ==
    /\ hoursNow < MaxHour
    /\ hoursNow' = hoursNow + 1
    /\ UNCHANGED <<gamificationAndLifecycle, now, AppointmentSystem, notified>>

\* the millisecond clock read by Date.now() advances
TickAppointments ==
    /\ now < MaxClock
    /\ now' = now + 1
    /\ UNCHANGED <<gamificationAndLifecycle, AppointmentSystem, notified, hoursNow>>

\* requestAppointment(data)
requestAppointment(data) ==
    LET appointment == [id |-> DateNowString,
                        trackingCode |-> data.trackingCode,
                        date |-> data.date,
                        status |-> "pending",
                        reminders |-> [day |-> FALSE, hour |-> FALSE]]
    IN  /\ AppointmentSystem' =
              [AppointmentSystem EXCEPT !.appointments = Append(@, appointment)]
        /\ notified' = Append(notified, [day |-> 0, hour |-> 0])

RequestAppointment ==
    /\ Len(AppointmentSystem.appointments) < MaxAppointments
    /\ \E date \in AppointmentDates :
          requestAppointment([trackingCode |-> "ABCDEFGH", date |-> date])
    /\ UNCHANGED <<gamificationAndLifecycle, now, hoursNow>>

\* this.appointments.find(a => a.id === id): first index, 0 when none
findAppointment(id) ==
    LET appointments == AppointmentSystem.appointments
    IN  IF \E i \in 1..Len(appointments) : appointments[i].id = id
        THEN CHOOSE i \in 1..Len(appointments) :
                /\ appointments[i].id = id
                /\ \A j \in 1..(i - 1) : appointments[j].id # id
        ELSE 0

AppointmentIds ==
    {AppointmentSystem.appointments[i].id :
        i \in 1..Len(AppointmentSystem.appointments)}

\* updateStatus(id, status); cancelAppointment(id) is updateStatus(id,
\* 'cancelled')
updateStatus(id, status) ==
    LET i == findAppointment(id)
    IN  /\ i # 0
        /\ AppointmentSystem' =
              [AppointmentSystem EXCEPT !.appointments[i].status = status]
        /\ UNCHANGED notified

UpdateAppointmentStatus ==
    /\ \E id \in AppointmentIds, status \in AppointmentStatuses :
          updateStatus(id, status)
    /\ UNCHANGED <<gamificationAndLifecycle, now, hoursNow>>

\* rescheduleAppointment(id, newDate, newTime): both reminders are due again
rescheduleAppointment(id, newDate) ==
    LET i == findAppointment(id)
    IN  /\ i # 0
        /\ AppointmentSystem' =
              [AppointmentSystem EXCEPT
                  !.appointments[i].date = newDate,
                  !.appointments[i].reminders = [day |-> FALSE, hour |-> FALSE]]
        /\ notified' = [notified EXCEPT ![i] = [day |-> 0, hour |-> 0]]

RescheduleAppointment ==
    /\ \E id \in AppointmentIds, newDate \in AppointmentDates :
          rescheduleAppointment(id, newDate)
    /\ UNCHANGED <<gamificationAndLifecycle, now, hoursNow>>

\* the two tests of checkReminders on one appointment
dayDue(appointment) ==
    LET hoursUntil == appointment.date - hoursNow
    IN  /\ appointment.status = "confirmed"
        /\ hoursUntil <= 24 /\ hoursUntil > 23
        /\ ~appointment.reminders.day

hourDue(appointment) ==
    LET hoursUntil == appointment.date - hoursNow
    IN  /\ appointment.status = "confirmed"
        /\ hoursUntil <= 1 /\ hoursUntil > 0
        /\ ~appointment.reminders.hour

\* an appointment after its reminders were sent, were they not marked as sent
remindedUnmarked(appointment) == appointment

\* an appointment after its reminders were sent
reminded(appointment) ==
    [appointment EXCEPT
        !.reminders.day = @ \/ dayDue(appointment),
        !.reminders.hour = @ \/ hourDue(appointment)]

\* checkReminders(): one run of the forEach, a call of notifyAppointment for
\* each reminder that is due
checkReminders ==
    LET appointments == AppointmentSystem.appointments
    IN  /\ AppointmentSystem' =
              [AppointmentSystem EXCEPT !.appointments =
                  [i \in 1..Len(appointments) |-> reminded(appointments[i])]]
        /\ notified' =
              [i \in 1..Len(appointments) |->
                  [day |-> notified[i].day
                              + (IF dayDue(appointments[i]) THEN 1 ELSE 0),
                   hour |-> notified[i].hour
                              + (IF hourDue(appointments[i]) THEN 1 ELSE 0)]]

\* the timer set by setupReminders fires
CheckReminders ==
    /\ AppointmentSystem.appointments # <<>>
    /\ checkReminders
    /\ UNCHANGED <<gamificationAndLifecycle, now, hoursNow>>

NextAppointments ==
    \/ AdvanceHour
    \/ TickAppointments
    \/ RequestAppointment
    \/ UpdateAppointmentStatus
    \/ RescheduleAppointment
    \/ CheckReminders

SpecAppointments == Init /\ [][NextAppointments]_vars

\* C30: for every appointment, between two reschedulings the 24-hour
\* reminder is sent at most once and the 1-hour reminder at most once, and a
\* reminder is sent only while the appointment is confirmed
C30_RemindersOnce ==
    [][\A i \in 1..Len(notified') :
          /\ notified'[i].day <= 1
          /\ notified'[i].hour <= 1
          /\ (i <= Len(notified)
                /\ \/ notified'[i].day > notified[i].day
                   \/ notified'[i].hour > notified[i].hour)
             => /\ AppointmentSystem.appointments[i].status = "confirmed"
                /\ AppointmentSystem'.appointments[i].status = "confirmed"]_vars

\* an appointment confirmed a day ahead got its 24-hour reminder and, 23
\* hours later, its 1-hour reminder, each once, with the timer firing again
\* in between
C30_Witness ==
    \E i \in 1..Len(notified) :
        /\ notified[i] = [day |-> 1, hour |-> 1]
        /\ AppointmentSystem.appointments[i].reminders
              = [day |-> TRUE, hour |-> TRUE]
        /\ AppointmentSystem.appointments[i].date - hoursNow = 1

====
